---- MODULE Spec2Model ----
(***************************************************************************)
(* A model of fadge.core.GRRT (mod/fadge/core.py): the session that stages *)
(* initial conditions (set_* methods) and drives the geodesic integrator   *)
(* (geode).                                                                *)
(*                                                                         *)
(* Numbers are fixed point.  Spin and charge are in tenths, their squares  *)
(* in hundredths, radii and eps in thousandths.  A float is a record that  *)
(* is either NaN or carries its fixed-point value.                         *)
(***************************************************************************)
EXTENDS Integers, Sequences, FiniteSets, TLC

VARIABLES aspin, qcharge, hp, dtype, kwargs, reh, rij, _geode, _ic, stdout, call

vars == <<aspin, qcharge, hp, dtype, kwargs, reh, rij, _geode, _ic, stdout, call>>

(***************************************************************************)
(* Bounds of the model.                                                    *)
(***************************************************************************)
MaxTraj == 2      \* extend calls recorded on one integrator instance
MaxPix  == 2      \* pixels along one axis of a staged grid

(***************************************************************************)
(* Python's None and optional values.                                      *)
(***************************************************************************)
None == <<>>
Some(v) == <<v>>
Get(o) == o[1]

(***************************************************************************)
(* Floats: NaN or a fixed-point number.                                    *)
(***************************************************************************)
NaN == [nan |-> TRUE, v |-> 0]
Num(n) == [nan |-> FALSE, v |-> n]
isnan(f) == f.nan
FAdd(f, g) == IF f.nan \/ g.nan THEN NaN ELSE Num(f.v + g.v)

\* integer square root, rounding down
ISqrt(n) == CHOOSE r \in 0..1000 : r * r <= n /\ (r + 1) * (r + 1) > n

\* np.sqrt of x hundredths, in thousandths; NaN for a negative argument
sqrt(x) == IF x < 0 THEN NaN ELSE Num(ISqrt(10000 * x))

(***************************************************************************)
(* Dictionaries: functions from a finite set of keys.                      *)
(***************************************************************************)
EmptyDict == [k \in {} |-> 0]
\* a merge in which the leftmost mapping wins
Merge_left(a, b) == [k \in DOMAIN a \cup DOMAIN b |-> IF k \in DOMAIN a THEN a[k] ELSE b[k]]

\* {**a, **b}: the rightmost mapping wins
Merge(a, b) == [k \in DOMAIN a \cup DOMAIN b |-> IF k \in DOMAIN b THEN b[k] ELSE a[k]]
\* the mapping left by d.pop(k)
Without(d, k) == [j \in DOMAIN d \ {k} |-> d[j]]
Dict1(k, v) == [j \in {k} |-> v]

(***************************************************************************)
(* GRRT.__init__                                                           *)
(***************************************************************************)
\* the horizon radius kept in a horizon-penetrating chart as well
init_reh_kept(a, q, h) ==
    LET aa == a * a
        qq == q * q
    IN  IF aa <= 100 THEN FAdd(Num(1000), sqrt(100 - aa - qq)) ELSE NaN

\* self.reh after construction
init_reh(a, q, h) ==
    LET aa == a * a
        qq == q * q
    IN  IF aa <= 100
        THEN LET r == FAdd(Num(1000), sqrt(100 - aa - qq))
             IN  IF h THEN NaN ELSE r
        ELSE NaN

\* what construction prints
init_stdout(a, q, h) ==
    LET aa == a * a
        qq == q * q
    IN  IF aa <= 100
        THEN LET r == FAdd(Num(1000), sqrt(100 - aa - qq))
             IN  <<[msg |-> "Radius of outer event horizon:", val |-> r]>>
                 \o (IF h THEN <<[msg |-> "Horizon penetrating", val |-> NaN]>> ELSE <<>>)
        ELSE <<[msg |-> "There is no event horizon", val |-> NaN]>>

(***************************************************************************)
(* Vectors, the constraint solvers and the seed generators.  A vector is   *)
(* named by where it comes from; the solvers and generators are the        *)
(* session's collaborators and are kept symbolic.                          *)
(***************************************************************************)
Vec(src, part, p, a, b) == [src |-> src, part |-> part, p |-> p, a |-> a, b |-> b]
asarray(part, n) == Vec("user", part, <<n>>, 0, 0)

Nullify(x, v)   == [solver |-> "null", at |-> x, raw |-> v]
Normalize(x, v) == [solver |-> "unit_timelike", at |-> x, raw |-> v]

sphorbit(a, r) == <<Vec("sphorbit", "x", <<a, r>>, 0, 0), Vec("sphorbit", "v", <<a, r>>, 0, 0)>>
cam(cg, ab) == <<Vec("cam", "x", cg, ab[1], ab[2]), Vec("cam", "v", cg, ab[1], ab[2])>>

\* np.array([x, v]): one staged ray
Ray(x, v) == [x |-> x, v |-> v]


(***************************************************************************)
(* Staged batches.  A batch has the shape of its batch dimensions and its  *)
(* rays in row-major order.  Its id is the identity of the array object:   *)
(* a new array never shares the identity of the array the integrator holds.*)
(***************************************************************************)
NewId(g) == IF g = None THEN 1 ELSE 3 - Get(g).ic.id

Batch(id, shape, rays) == [id |-> id, shape |-> shape, rays |-> rays]

(***************************************************************************)
(* set_particle, set_photon, set_sphorbit, set_cam                         *)
(***************************************************************************)
\* the defaults merged by set_particle, set_photon and set_sphorbit
ray_defaults == [k \in {"L", "h"} |-> IF k = "L" THEN 100 ELSE 1]

\* a camera that merges no defaults
cam_defaults_none(r_obs) == EmptyDict

\* the defaults merged by set_cam, r_obs in units of 1
cam_defaults(r_obs) == [k \in {"L", "h"} |-> IF k = "L" THEN (0 - 2) * r_obs ELSE (3 * r_obs) \div 4]

set_particle_ic(id, x, v) == Batch(id, <<>>, <<Ray(asarray("x", x), Normalize(asarray("x", x), asarray("v", v)))>>)

set_photon_ic(id, x, v) == Batch(id, <<>>, <<Ray(asarray("x", x), Nullify(asarray("x", x), asarray("v", v)))>>)

set_sphorbit_ic(id, a, r) ==
    LET s == sphorbit(a, r)
    IN  Batch(id, <<>>, <<Ray(s[1], Nullify(s[1], s[2]))>>)

(***************************************************************************)
(* set_pixels and its wrappers.  An offset array is a shape and its        *)
(* values in row-major order, in thousandths.                              *)
(***************************************************************************)
Size(shape) == IF shape = <<>> THEN 1 ELSE IF Len(shape) = 1 THEN shape[1] ELSE shape[1] * shape[2]

\* the per-pixel function staging the seed velocity as it is
pixel_ic_raw(cg, ab) ==
    LET s == cam(cg, ab)
    IN  Ray(s[1], [solver |-> "none", at |-> s[1], raw |-> s[2]])

\* the per-pixel function mapped over the batch dimensions
pixel_ic(cg, ab) ==
    LET s == cam(cg, ab)
    IN  Ray(s[1], Nullify(s[1], s[2]))

\* the map writing its outputs in the reverse of the batch order
set_pixels_ic_reversed(id, cg, shape, a, b) ==
    Batch(id, shape, [i \in 1..Size(shape) |->
                        pixel_ic(cg, <<a[Size(shape) + 1 - i], b[Size(shape) + 1 - i]>>)])

set_pixels_ic(id, cg, shape, a, b) ==
    Batch(id, shape, [i \in 1..Size(shape) |-> pixel_ic(cg, <<a[i], b[i]>>)])

\* fov * ((np.arange(n) + 0.5) / n - 0.5), element i (from 0)
axes(fov, n, i) == (fov * (2 * i + 1 - n)) \div (2 * n)

\* cosine and sine of a multiple of 30 degrees, in thousandths
CosDeg(d) ==
    LET m == d % 360
    IN  CASE m = 0 -> 1000 [] m = 30 -> 866 [] m = 60 -> 500 [] m = 90 -> 0
          [] m = 120 -> 0 - 500 [] m = 150 -> 0 - 866 [] m = 180 -> 0 - 1000
          [] m = 210 -> 0 - 866 [] m = 240 -> 0 - 500 [] m = 270 -> 0
          [] m = 300 -> 500 [] m = 330 -> 866
SinDeg(d) == CosDeg(d + 270)

\* np.meshgrid(axes+alpha0, axes+beta0, indexing='ij')
image_a(fov, n, alpha0) == [k \in 1..(n * n) |-> axes(fov, n, (k - 1) \div n) + alpha0]
image_b(fov, n, beta0)  == [k \in 1..(n * n) |-> axes(fov, n, (k - 1) % n) + beta0]

axis_a(fov, n, PA, alpha0) == [k \in 1..n |-> ((axes(fov, n, k - 1) + alpha0) * SinDeg(PA)) \div 1000]
axis_b(fov, n, PA, alpha0) == [k \in 1..n |-> ((axes(fov, n, k - 1) + alpha0) * CosDeg(PA)) \div 1000]

ring_a(r, n) == [k \in 1..n |-> (r * CosDeg((360 * (k - 1)) \div n)) \div 1000]
ring_b(r, n) == [k \in 1..n |-> (r * SinDeg((360 * (k - 1)) \div n)) \div 1000]


(***************************************************************************)
(* The integrator, fadge.geode.Geode: constructed from a metric, a start   *)
(* parameter, a batch and keyword arguments; extend grows its trajectory   *)
(* record, a call with a sequence samples it.                              *)
(***************************************************************************)
Geode_init(id, metric, start, ic, args) ==
    [id |-> id, metric |-> metric, start |-> start, ic |-> ic, kwargs |-> args,
     lambdas |-> <<start>>]

Geode_extend(g, amount) ==
    [g EXCEPT !.lambdas = IF amount = 0 THEN @ ELSE Append(@, @[Len(@)] + amount)]

Geode_sample(g, ls) == [i \in 1..Len(ls) |-> [lambda |-> ls[i], ic |-> g.ic.id]]

\* a new instance never shares the identity of the instance it replaces
NewInst(g) == IF g = None THEN 1 ELSE 3 - Get(g).id

(***************************************************************************)
(* The argument L of geode: omitted, a scalar or a sequence.               *)
(***************************************************************************)
LNone == [t |-> "none", n |-> 0, s |-> <<>>]
Scalar(n) == [t |-> "scalar", n |-> n, s |-> <<>>]
Sequence(s) == [t |-> "seq", n |-> 0, s |-> s]
\* an empty sequence taken for a scalar
has_len_nonempty(L) == L.t = "seq" /\ L.s # <<>>

\* whether len(L) succeeds
has_len(L) == L.t = "seq"

(***************************************************************************)
(* GRRT.geode: composing the constructor's keyword arguments               *)
(***************************************************************************)
DefaultFhupper == 750
DefaultEps == 10

compose_kwargs(dt, skw, kw) == Merge(Merge(Dict1("dtype", dt), skw), kw)

\* the stored L left among the composed parameters
pop_L_kept(k, L) == k

pop_L(k, L) == IF L.t # "none" THEN Without(k, "L") ELSE k

with_hupper(k) ==
    LET fhupper == IF "fhupper" \in DOMAIN k THEN k["fhupper"] ELSE DefaultFhupper
        k1 == Without(k, "fhupper")
    IN  IF "hupper" \notin DOMAIN k1
        THEN Merge(k1, Dict1("hupper", [fn |-> "KSr(s[0]) * fhupper + 1", c |-> fhupper]))
        ELSE k1

with_hlower(k) ==
    LET k1 == Without(k, "fhlower")
    IN  IF "hlower" \notin DOMAIN k1 /\ "fhlower" \in DOMAIN k
        THEN Merge(k1, Dict1("hlower", [fn |-> "fhlower", c |-> k["fhlower"]]))
        ELSE k1

\* the radius-based filter whatever the horizon radius is
with_filter_radius(k, r) ==
    LET eps == IF "eps" \in DOMAIN k THEN k["eps"] ELSE DefaultEps
        k1 == Without(k, "eps")
    IN  IF "filter" \notin DOMAIN k1
        THEN IF FALSE
             THEN Merge(k1, Dict1("filter", [fn |-> "KSd(s[0]) >= eps", eps |-> eps, reh |-> NaN]))
             ELSE Merge(k1, Dict1("filter", [fn |-> "KSr(s[0]) >= reh + eps", eps |-> eps, reh |-> r]))
        ELSE k1

with_filter(k, r) ==
    LET eps == IF "eps" \in DOMAIN k THEN k["eps"] ELSE DefaultEps
        k1 == Without(k, "eps")
    IN  IF "filter" \notin DOMAIN k1
        THEN IF isnan(r)
             THEN Merge(k1, Dict1("filter", [fn |-> "KSd(s[0]) >= eps", eps |-> eps, reh |-> NaN]))
             ELSE Merge(k1, Dict1("filter", [fn |-> "KSr(s[0]) >= reh + eps", eps |-> eps, reh |-> r]))
        ELSE k1

geode_kwargs(dt, skw, r, L, kw) ==
    with_filter(with_hlower(with_hupper(pop_L(compose_kwargs(dt, skw, kw), L))), r)

(***************************************************************************)
(* What a public call leaves for its caller: its outcome, its return value *)
(* and what it printed, with the calls it made on the integrator class.    *)
(***************************************************************************)
NoRet == [kind |-> "none", lambdas |-> <<>>, states |-> <<>>]

\* the offset arrays a pixel builder was called with
NoAb == [shape |-> <<>>, a |-> <<>>, b |-> <<>>]

Call(op) ==
    [op |-> op, L |-> LNone, N |-> None, kw |-> EmptyDict, ab |-> NoAb,
     outcome |-> "return", err |-> "", ret |-> NoRet, warn |-> FALSE,
     pol |-> 0, ctor |-> <<>>, log |-> <<>>]


(***************************************************************************)
(* GRRT.geode                                                              *)
(***************************************************************************)
\* the pending slot is left as it was
consumed_ic_kept(ic) == ic

\* the pending slot after the integrator has been constructed
consumed_ic(ic) == None

\* overrides ignored without a report
ignores_kwargs_silent(ic, kw) == FALSE

\* the branch that reports ignored overrides
ignores_kwargs(ic, kw) == ic = None /\ DOMAIN kw # {}

\* an integrator constructed only when the session has none
construct_once(self, L, kw) ==
    IF self._geode = None
    THEN Some(Geode_init(1, self.metric, 0, Get(self._ic),
                         geode_kwargs(self.dtype, self.kwargs, self.reh, L, kw)))
    ELSE self._geode

\* self._geode after the constructor has returned
construct(self, L, kw) ==
    Some(Geode_init(NewInst(self._geode), self.metric, 0, Get(self._ic),
                    geode_kwargs(self.dtype, self.kwargs, self.reh, L, kw)))

\* the dispatch returning nothing when there is no integrator
dispatch_silent(g, L, N) ==
    IF ~has_len(L)
    THEN IF g = None
         THEN [outcome |-> "return", err |-> "", g |-> g, ret |-> NoRet, log |-> <<>>]
         ELSE LET g1 == Geode_extend(Get(g), L.n)
              IN  [outcome |-> "return", err |-> "", g |-> Some(g1),
                   ret |-> [kind |-> "trajectory", lambdas |-> g1.lambdas,
                            states |-> Geode_sample(g1, g1.lambdas)],
                   log |-> <<[m |-> "extend", on |-> g1.id, arg |-> L, N |-> N]>>]
    ELSE IF g = None
         THEN [outcome |-> "return", err |-> "", g |-> g, ret |-> NoRet, log |-> <<>>]
         ELSE [outcome |-> "return", err |-> "", g |-> g,
               ret |-> [kind |-> "samples", lambdas |-> L.s, states |-> Geode_sample(Get(g), L.s)],
               log |-> <<[m |-> "__call__", on |-> Get(g).id, arg |-> L, N |-> N]>>]

\* the dispatch extending the trajectory to the last sampled parameter
dispatch_extending(g, L, N) ==
    IF ~has_len(L)
    THEN IF g = None
         THEN [outcome |-> "raise", err |-> "AttributeError", g |-> g, ret |-> NoRet, log |-> <<>>]
         ELSE LET g1 == Geode_extend(Get(g), L.n)
              IN  [outcome |-> "return", err |-> "", g |-> Some(g1),
                   ret |-> [kind |-> "trajectory", lambdas |-> g1.lambdas,
                            states |-> Geode_sample(g1, g1.lambdas)],
                   log |-> <<[m |-> "extend", on |-> g1.id, arg |-> L, N |-> N]>>]
    ELSE IF g = None
         THEN [outcome |-> "raise", err |-> "TypeError", g |-> g, ret |-> NoRet, log |-> <<>>]
         ELSE [outcome |-> "return", err |-> "",
               g |-> IF L.s = <<>> THEN g ELSE Some(Geode_extend(Get(g), L.s[Len(L.s)])),
               ret |-> [kind |-> "samples", lambdas |-> L.s, states |-> Geode_sample(Get(g), L.s)],
               log |-> <<[m |-> "__call__", on |-> Get(g).id, arg |-> L, N |-> N]>>]

\* the dispatch on L: extend for a scalar, a sampling call for a sequence
dispatch(g, L, N) ==
    IF ~has_len(L)
    THEN IF g = None
         THEN [outcome |-> "raise", err |-> "AttributeError", g |-> g, ret |-> NoRet, log |-> <<>>]
         ELSE LET g1 == Geode_extend(Get(g), L.n)
              IN  [outcome |-> "return", err |-> "", g |-> Some(g1),
                   ret |-> [kind |-> "trajectory", lambdas |-> g1.lambdas,
                            states |-> Geode_sample(g1, g1.lambdas)],
                   log |-> <<[m |-> "extend", on |-> g1.id, arg |-> L, N |-> N]>>]
    ELSE IF g = None
         THEN [outcome |-> "raise", err |-> "TypeError", g |-> g, ret |-> NoRet, log |-> <<>>]
         ELSE [outcome |-> "return", err |-> "", g |-> g,
               ret |-> [kind |-> "samples", lambdas |-> L.s, states |-> Geode_sample(Get(g), L.s)],
               log |-> <<[m |-> "__call__", on |-> Get(g).id, arg |-> L, N |-> N]>>]

\* a zero L taken for an omitted one
default_L_falsy(skw, L) ==
    IF (L.t = "none" \/ (L.t = "scalar" /\ L.n = 0)) /\ "L" \in DOMAIN skw
    THEN Scalar(skw["L"])
    ELSE L

\* if L is None: L = self.kwargs['L']
default_L(skw, L) == IF L.t = "none" THEN Scalar(skw["L"]) ELSE L

\* the pending slot cleared before the constructor is called
raised_ic_cleared(ic) == None

\* the pending slot when the constructor raises: the assignment that clears
\* it comes after the constructor call
raised_ic(ic) == ic

\* the whole method on a session self; ok tells whether the constructor returns
geode(self, L, N, kw, ok) ==
    LET pending == self._ic # None
        base == [Call("geode") EXCEPT !.L = L, !.N = N, !.kw = kw]
        k0 == compose_kwargs(self.dtype, self.kwargs, kw)
        args == geode_kwargs(self.dtype, self.kwargs, self.reh, L, kw)
        made == [start |-> 0, ic |-> Get(self._ic).id, kwargs |-> args]
        g1 == IF pending THEN construct(self, L, kw) ELSE self._geode
        ic1 == IF pending THEN consumed_ic(self._ic) ELSE self._ic
        warn == ignores_kwargs(self._ic, kw)
        d == dispatch(g1, default_L(self.kwargs, L), N)
    IN  IF pending /\ L.t # "none" /\ "L" \notin DOMAIN k0
        THEN [_ic |-> self._ic, _geode |-> self._geode,
              call |-> [base EXCEPT !.outcome = "raise", !.err = "KeyError"]]
        ELSE IF pending /\ ~ok
        THEN [_ic |-> raised_ic(self._ic), _geode |-> self._geode,
              call |-> [base EXCEPT !.outcome = "raise", !.err = "Geode", !.pol = 1,
                                    !.ctor = <<made>>]]
        ELSE IF L.t = "none" /\ "L" \notin DOMAIN self.kwargs
        THEN [_ic |-> ic1, _geode |-> g1,
              call |-> [base EXCEPT !.outcome = "raise", !.err = "KeyError", !.warn = warn,
                                    !.pol = IF pending THEN 1 ELSE 0,
                                    !.ctor = IF pending THEN <<made>> ELSE <<>>]]
        ELSE [_ic |-> ic1, _geode |-> d.g,
              call |-> [base EXCEPT !.outcome = d.outcome, !.err = d.err, !.ret = d.ret,
                                    !.warn = warn, !.log = d.log,
                                    !.pol = IF pending THEN 1 ELSE 0,
                                    !.ctor = IF pending THEN <<made>> ELSE <<>>]]

(***************************************************************************)
(* Inputs                                                                  *)
(***************************************************************************)
UserFn == [fn |-> "user", c |-> 0]
UserFilter == [fn |-> "user", eps |-> 0, reh |-> NaN]
UserVal(k) ==
    CASE k = "L" -> 50 [] k = "h" -> 2 [] k = "fhupper" -> 500 [] k = "fhlower" -> 1
      [] k = "eps" -> 50 [] k = "hupper" -> UserFn [] k = "hlower" -> UserFn
      [] k = "filter" -> UserFilter
Dict(ks) == [k \in ks |-> UserVal(k)]

PosVals    == {1}
VelVals    == {7}
RadiusVals == {3}
CamVals    == {<<10, 60, 0>>}
LVals      == {LNone, Scalar(0), Scalar(5), Sequence(<<>>), Sequence(<<1, 2>>)}
NVals      == {Some(4)}
\* keyword arguments of the constructor, and of geode (where L is a parameter of its own)
InitKw     == {Dict({}), Dict({"L", "fhupper", "fhlower"})}
GeodeKw    == {Dict({}), Dict({"eps"})}

(***************************************************************************)
(* The session                                                             *)
(***************************************************************************)
Self ==
    [dtype |-> dtype, kwargs |-> kwargs, reh |-> reh,
     metric |-> [aspin |-> aspin, qcharge |-> qcharge], _ic |-> _ic, _geode |-> _geode]

\* the session GRRT(a, q, h, **kw) after construction
__init__(a, q, h, kw) ==
    /\ aspin = a
    /\ qcharge = q
    /\ hp = h
    /\ dtype = "float32"
    /\ kwargs = kw
    /\ reh = init_reh(a, q, h)
    /\ stdout = init_stdout(a, q, h)
    /\ rij = None
    /\ _geode = None
    /\ _ic = None
    /\ call = Call("__init__")

fixed == <<aspin, qcharge, hp, dtype, reh, stdout>>

set_particle_in(Xs, Vs) ==
    \E x \in Xs, v \in Vs :
        /\ _ic' = Some(set_particle_ic(NewId(_geode), x, v))
        /\ kwargs' = Merge(ray_defaults, kwargs)
        /\ call' = Call("set_particle")
        /\ UNCHANGED <<fixed, rij, _geode>>

set_photon_in(Xs, Vs) ==
    \E x \in Xs, v \in Vs :
        /\ _ic' = Some(set_photon_ic(NewId(_geode), x, v))
        /\ kwargs' = Merge(ray_defaults, kwargs)
        /\ call' = Call("set_photon")
        /\ UNCHANGED <<fixed, rij, _geode>>

set_sphorbit_in(Rs) ==
    \E r \in Rs :
        /\ _ic' = Some(set_sphorbit_ic(NewId(_geode), aspin, r))
        /\ kwargs' = Merge(ray_defaults, kwargs)
        /\ call' = Call("set_sphorbit")
        /\ UNCHANGED <<fixed, rij, _geode>>

set_cam_in(Cs) ==
    \E c \in Cs :
        /\ rij' = Some(c)
        /\ kwargs' = Merge(cam_defaults(c[1]), kwargs)
        /\ call' = Call("set_cam")
        /\ UNCHANGED <<fixed, _ic, _geode>>

\* a pixel builder that stages only when nothing is pending
pixels_kept(op, shape, a, b) ==
    /\ IF rij = None
       THEN /\ call' = [Call(op) EXCEPT !.outcome = "raise", !.err = "AttributeError",
                                        !.ab = [shape |-> shape, a |-> a, b |-> b]]
            /\ _ic' = _ic
       ELSE /\ call' = [Call(op) EXCEPT !.ab = [shape |-> shape, a |-> a, b |-> b]]
            /\ _ic' = IF _ic # None THEN _ic
                      ELSE Some(set_pixels_ic(NewId(_geode), Get(rij), shape, a, b))
    /\ UNCHANGED <<fixed, kwargs, rij, _geode>>

\* set_pixels on offset arrays a and b of one shape; without a camera the
\* per-pixel function fails on self.rij before anything is staged
pixels(op, shape, a, b) ==
    /\ IF rij = None
       THEN /\ call' = [Call(op) EXCEPT !.outcome = "raise", !.err = "AttributeError",
                                        !.ab = [shape |-> shape, a |-> a, b |-> b]]
            /\ _ic' = _ic
       ELSE /\ call' = [Call(op) EXCEPT !.ab = [shape |-> shape, a |-> a, b |-> b]]
            /\ _ic' = Some(set_pixels_ic(NewId(_geode), Get(rij), shape, a, b))
    /\ UNCHANGED <<fixed, kwargs, rij, _geode>>

set_pixels_in(Ns) ==
    \E n \in Ns :
        pixels("set_pixels", IF n = 0 THEN <<>> ELSE <<n>>,
               [i \in 1..(IF n = 0 THEN 1 ELSE n) |-> 1000 * i],
               [i \in 1..(IF n = 0 THEN 1 ELSE n) |-> 0 - 500 * i])

set_image_in(Ns) ==
    \E n \in Ns :
        pixels("set_image", <<n, n>>, image_a(16000, n, 0), image_b(16000, n, 0))

set_axis_in(Ns) ==
    \E n \in Ns, PA \in {90} :
        pixels("set_axis", <<n>>, axis_a(16000, n, PA, 0), axis_b(16000, n, PA, 0))

set_ring_in(Ns) ==
    \E n \in Ns :
        pixels("set_ring", <<n>>, ring_a(5200, n), ring_b(5200, n))

\* the trajectory record is kept within MaxTraj extensions
geode_in(Ls, Ns, Kws, Oks) ==
    \E L \in Ls, N \in Ns, kw \in Kws, ok \in Oks :
        /\ (_ic = None => ok)
        /\ LET r == geode(Self, L, N, kw, ok)
           IN  /\ r._geode # None => Len(Get(r._geode).lambdas) <= MaxTraj + 1
               /\ _ic' = r._ic
               /\ _geode' = r._geode
               /\ call' = r.call
        /\ UNCHANGED <<fixed, kwargs, rij>>

(***************************************************************************)
(* The session's life: any sequence of set_* and geode calls.              *)
(***************************************************************************)
Init == \E kw \in InitKw : __init__(0, 0, FALSE, kw)

set_particle == set_particle_in(PosVals, VelVals)
set_photon   == set_photon_in(PosVals, VelVals)
set_cam      == set_cam_in(CamVals)
set_pixels   == set_pixels_in({MaxPix})
geode_call   == geode_in(LVals, NVals, GeodeKw, BOOLEAN)

Next ==
    \/ set_particle
    \/ set_photon
    \/ set_cam
    \/ set_pixels
    \/ geode_call

Spec == Init /\ [][Next]_vars

(***************************************************************************)
(* Staging: every set_* method over a range of inputs, each batch then     *)
(* integrated.                                                             *)
(***************************************************************************)
StageSpins == {9}
StagePos   == {1, 2}
StageVel   == {7}
StageRad   == {3}
StageCams  == {<<12, 60, 0>>, <<20, 30, 90>>}
StageKw    == {Dict({}), Dict({"L", "eps"})}

InitStage == \E a \in StageSpins, kw \in StageKw : __init__(a, 0, FALSE, kw)

stage_particle == set_particle_in(StagePos, StageVel)
stage_photon   == set_photon_in(StagePos, StageVel)
stage_sphorbit == set_sphorbit_in(StageRad)
stage_cam      == set_cam_in(StageCams)
stage_pixels   == set_pixels_in(0..MaxPix)
stage_image    == set_image_in(1..MaxPix)
stage_axis     == set_axis_in(1..MaxPix)
stage_ring     == set_ring_in(1..MaxPix)
stage_geode    == geode_in({LNone, Scalar(5)}, {None}, {Dict({})}, {TRUE})

NextStage ==
    \/ stage_particle
    \/ stage_photon
    \/ stage_sphorbit
    \/ stage_cam
    \/ stage_pixels
    \/ stage_image
    \/ stage_axis
    \/ stage_ring
    \/ stage_geode

SpecStage == InitStage /\ [][NextStage]_vars

(***************************************************************************)
(* Horizon geometry: sessions over a range of spins and charges, each      *)
(* integrating a photon.                                                   *)
(***************************************************************************)
HorizonSpins   == {0 - 12, 0 - 8, 0, 6, 8, 9, 10, 12}
HorizonCharges == {0, 3, 6, 8, 10, 12}
HorizonKw      == {Dict({}), Dict({"eps"}), Dict({"filter"})}
HorizonOver    == {Dict({}), Dict1("eps", 20), Dict({"filter"})}

InitHorizon ==
    \E a \in HorizonSpins, q \in HorizonCharges, h \in BOOLEAN, kw \in HorizonKw :
        __init__(a, q, h, kw)

horizon_photon == set_photon_in(PosVals, VelVals)
horizon_geode  == geode_in({Scalar(5)}, {None}, HorizonOver, {TRUE})

NextHorizon ==
    \/ horizon_photon
    \/ horizon_geode

SpecHorizon == InitHorizon /\ [][NextHorizon]_vars

(***************************************************************************)
(* Properties.  A step of the session is recognised by the record the      *)
(* call leaves: call' is the record of the call the step makes.            *)
(***************************************************************************)
IsGeodeStep == call'.op = "geode"
\* the constructor was called and returned
Constructed(c) == c.ctor # <<>> /\ c.err # "Geode"

\* C1: a geode() call made with a batch pending, whose constructor returns,
\* builds the integrator from exactly that batch at start parameter 0 and
\* leaves the pending slot empty; the batch handed to the constructor is
\* never the one the existing integrator was already built from, so no batch
\* is consumed by two calls.
C1_ConsumedOnce ==
    [][(IsGeodeStep /\ _ic # None /\ Constructed(call'))
        => /\ _geode' # None
           /\ Get(_geode').ic = Get(_ic)
           /\ Get(_geode').start = 0
           /\ Len(call'.ctor) = 1
           /\ call'.ctor[1].ic = Get(_ic).id
           /\ call'.ctor[1].start = 0
           /\ _ic' = None
           /\ (_geode # None => Get(_geode).ic.id # Get(_ic).id)]_vars

\* a second geode() call has run on the integrator built from a consumed batch
C1_Witness ==
    /\ call.op = "geode"
    /\ call.outcome = "return"
    /\ call.ctor = <<>>
    /\ _ic = None
    /\ _geode # None
    /\ Len(Get(_geode).lambdas) > 1

\* C2: a geode() call calls the integrator's constructor, and builds the
\* policies, if and only if a batch is pending at the call, once; the session
\* holds a new instance after the call if and only if a batch was pending and
\* the constructor returned; with no batch pending the instance, its batch and
\* its policies stay the same and the call's operation runs on that instance.
NewInstance == _geode' # None /\ (_geode = None \/ Get(_geode').id # Get(_geode).id)

C2_LazyConstruction ==
    [][IsGeodeStep
        => /\ (call'.ctor # <<>>) <=> (_ic # None)
           /\ Len(call'.ctor) <= 1
           /\ call'.pol = (IF _ic # None THEN 1 ELSE 0)
           /\ NewInstance <=> (_ic # None /\ Constructed(call'))
           /\ _ic = None =>
                /\ _geode = None => _geode' = None
                /\ _geode # None =>
                     /\ _geode' # None
                     /\ Get(_geode').id = Get(_geode).id
                     /\ Get(_geode').ic = Get(_geode).ic
                     /\ Get(_geode').kwargs = Get(_geode).kwargs
                     /\ \A i \in DOMAIN call'.log : call'.log[i].on = Get(_geode).id]_vars

\* a second integrator has replaced the first, and has been extended again
\* by a call made with no batch pending
C2_Witness ==
    /\ call.op = "geode"
    /\ call.outcome = "return"
    /\ call.ctor = <<>>
    /\ _geode # None
    /\ Get(_geode).id = 2
    /\ Len(Get(_geode).lambdas) = 3

C4_NothingToIntegrate ==
    [][(IsGeodeStep /\ _ic = None /\ _geode = None)
        => /\ call'.outcome = "raise"
           /\ call'.ret = NoRet
           /\ call'.log = <<>>
           /\ _geode' = None]_vars

\* geode(L=[...], eps=...) has failed on a session that only set_cam touched
C4_Witness ==
    /\ call.op = "geode"
    /\ call.outcome = "raise"
    /\ call.L.t = "seq"
    /\ DOMAIN call.kw # {}
    /\ rij # None
    /\ _ic = None
    /\ _geode = None

\* C5: a geode() call that returns has made exactly one call on the
\* integrator: extend with L for a scalar L, extend with the stored default
\* L when L is omitted, both returning the accumulated trajectory; a sampling
\* call with the sequence, empty or not, when L is a sequence.
C5_OneOperation ==
    [][(IsGeodeStep /\ call'.outcome = "return")
        => /\ Len(call'.log) = 1
           /\ call'.log[1].on = Get(_geode').id
           /\ call'.log[1].N = call'.N
           /\ call'.L.t = "scalar" =>
                (call'.log[1].m = "extend" /\ call'.log[1].arg = call'.L)
           /\ call'.L.t = "none" =>
                (call'.log[1].m = "extend" /\ call'.log[1].arg = Scalar(kwargs["L"]))
           /\ call'.L.t = "seq" =>
                /\ call'.log[1].m = "__call__"
                /\ call'.log[1].arg = call'.L
                /\ call'.ret.kind = "samples"
                /\ Len(call'.ret.states) = Len(call'.L.s)
           /\ call'.log[1].m = "extend" =>
                /\ call'.ret.kind = "trajectory"
                /\ call'.ret.lambdas = Get(_geode').lambdas]_vars

\* geode(L=[]) has returned after a sampling call
C5_Witness ==
    /\ call.op = "geode"
    /\ call.outcome = "return"
    /\ call.L = Sequence(<<>>)
    /\ call.log # <<>>
    /\ call.log[1].m = "__call__"

\* C6 as stated: a geode() call with a sequence L leaves the integrator the
\* session held, and its trajectory record, as they were, a batch pending or not.
C6_SamplingKeepsRecord ==
    [][(IsGeodeStep /\ call'.L.t = "seq" /\ _geode # None) => _geode' = _geode]_vars

\* C6, amended: with no batch pending, a geode() call with a sequence L leaves
\* the integrator and its trajectory record, and the rest of the session, as
\* they were.
C6_SamplingKeepsRecordIdle ==
    [][(IsGeodeStep /\ call'.L.t = "seq" /\ _geode # None /\ _ic = None)
        => (_geode' = _geode /\ _ic' = None /\ kwargs' = kwargs)]_vars

\* geode(L=[1, 2]) has sampled an integrator whose trajectory had been extended
C6_Witness ==
    /\ call.op = "geode"
    /\ call.outcome = "return"
    /\ call.L = Sequence(<<1, 2>>)
    /\ call.ctor = <<>>
    /\ _geode # None
    /\ Len(Get(_geode).lambdas) > 1

\* C7: geode() with overrides, no batch pending and an integrator present
\* reports the warning, leaves the stored defaults, the instance and its
\* policies as they were, and does what the call without overrides does.
C7_OverridesIgnored ==
    [][(IsGeodeStep /\ _ic = None /\ _geode # None /\ DOMAIN call'.kw # {})
        => /\ call'.warn
           /\ kwargs' = kwargs
           /\ _geode' # None
           /\ Get(_geode').id = Get(_geode).id
           /\ Get(_geode').kwargs = Get(_geode).kwargs
           /\ LET r == geode(Self, call'.L, call'.N, EmptyDict, TRUE)
              IN  /\ _geode' = r._geode
                  /\ _ic' = r._ic
                  /\ call'.outcome = r.call.outcome
                  /\ call'.ret = r.call.ret
                  /\ call'.log = r.call.log
                  /\ ~r.call.warn]_vars

\* geode(5, eps=...) has extended the existing integrator, with the warning
C7_Witness ==
    /\ call.op = "geode"
    /\ call.outcome = "return"
    /\ call.warn
    /\ call.L = Scalar(5)
    /\ DOMAIN call.kw = {"eps"}
    /\ "eps" \notin DOMAIN kwargs

\* C8: when spin^2 + charge^2 <= 1, the horizon radius is NaN in a
\* horizon-penetrating chart, and otherwise 1 + sqrt(1 - spin^2 - charge^2):
\* in thousandths, 1000 + r with r the square root of 10000 times the
\* hundredths 100 - aa - qq, rounded down.
C8_HorizonRadius ==
    LET aa == aspin * aspin
        qq == qcharge * qcharge
        d == 10000 * (100 - aa - qq)
    IN  aa + qq <= 100 =>
            IF hp
            THEN isnan(reh)
            ELSE /\ ~isnan(reh)
                 /\ reh.v >= 1000
                 /\ (reh.v - 1000) * (reh.v - 1000) <= d
                 /\ (reh.v - 999) * (reh.v - 999) > d

\* spin 0.6, charge 0, not horizon-penetrating: the radius is 1.8
C8_Witness ==
    /\ aspin = 6
    /\ qcharge = 0
    /\ ~hp
    /\ reh = Num(1800)
    /\ stdout = <<[msg |-> "Radius of outer event horizon:", val |-> Num(1800)]>>

\* C9: when neither the stored defaults nor the call supply a filter, the
\* filter the constructor receives is the distance-based one exactly when the
\* horizon radius is NaN and otherwise the radius-based one on that radius,
\* with eps the override, else the stored eps, else 1e-2; with
\* spin^2 + charge^2 > 1, or a horizon-penetrating chart, the radius is NaN
\* and the filter distance-based.
C9_FilterChoice ==
    [][(IsGeodeStep /\ Constructed(call')
          /\ "filter" \notin DOMAIN kwargs /\ "filter" \notin DOMAIN call'.kw)
        => LET f == Get(_geode').kwargs["filter"]
               eps == IF "eps" \in DOMAIN call'.kw THEN call'.kw["eps"]
                      ELSE IF "eps" \in DOMAIN kwargs THEN kwargs["eps"]
                      ELSE 10
           IN  /\ f.eps = eps
               /\ "eps" \notin DOMAIN Get(_geode').kwargs
               /\ isnan(reh) <=> f.fn = "KSd(s[0]) >= eps"
               /\ ~isnan(reh) => (f.fn = "KSr(s[0]) >= reh + eps" /\ f.reh = reh)
               /\ (aspin * aspin + qcharge * qcharge > 100 \/ hp)
                    => (isnan(reh) /\ f.fn = "KSd(s[0]) >= eps")]_vars

\* spin 0.8 and charge 0.8 (spin^2 <= 1 < spin^2 + charge^2), no filter and
\* no eps supplied: the integrator has the distance-based filter with eps 1e-2
C9_Witness ==
    /\ aspin = 8
    /\ qcharge = 8
    /\ ~hp
    /\ call.op = "geode"
    /\ call.kw = EmptyDict
    /\ "eps" \notin DOMAIN kwargs
    /\ _geode # None
    /\ Get(_geode).kwargs["filter"] = [fn |-> "KSd(s[0]) >= eps", eps |-> 10, reh |-> NaN]

\* C10: every ray of a pending batch, and of a batch the constructor
\* receives, has as its velocity the output of the constraint solver applied
\* at the ray's own position to the seed velocity: the unit-timelike solver
\* for set_particle, the null solver for every other set_* method.
Constrained(b, kinds) ==
    \A i \in DOMAIN b.rays :
        /\ b.rays[i].v.solver \in kinds
        /\ b.rays[i].v.at = b.rays[i].x
        /\ b.rays[i].x.part = "x"
        /\ b.rays[i].v.raw.part = "v"

C10_StagedConstrained ==
    [][/\ _ic' # None => Constrained(Get(_ic'), {"null", "unit_timelike"})
       /\ call'.op = "set_particle" =>
            (_ic' # None /\ Constrained(Get(_ic'), {"unit_timelike"}))
       /\ call'.op \in {"set_photon", "set_sphorbit"} =>
            (_ic' # None /\ Constrained(Get(_ic'), {"null"}))
       /\ (call'.op \in {"set_pixels", "set_image", "set_axis", "set_ring"}
             /\ call'.outcome = "return") =>
            (_ic' # None /\ Constrained(Get(_ic'), {"null"}))
       /\ (IsGeodeStep /\ call'.ctor # <<>>) =>
            /\ _ic # None
            /\ Constrained(Get(_ic), {"null", "unit_timelike"})
            /\ _geode' # None
            /\ Get(_geode').ic = Get(_ic)]_vars

\* a set_image grid has been integrated and a set_ring batch staged after it
C10_Witness ==
    /\ call.op = "set_ring"
    /\ call.outcome = "return"
    /\ _ic # None
    /\ Len(Get(_ic).rays) = MaxPix
    /\ _geode # None
    /\ Get(_geode).ic.shape = <<MaxPix, MaxPix>>

\* a key whose stored value is the one the user gave at construction
UserSupplied(k) == k \in DOMAIN kwargs /\ kwargs[k] = UserVal(k)

\* C11: on a session whose user supplied neither L nor h, set_cam(r_obs)
\* leaves the stored defaults with L = -2 r_obs and h = 0.75 r_obs, whatever
\* set_* calls came before.
C11_CamDefaults ==
    [][(call'.op = "set_cam" /\ ~UserSupplied("L") /\ ~UserSupplied("h"))
        => /\ kwargs'["L"] = (0 - 2) * Get(rij')[1]
           /\ kwargs'["h"] = (3 * Get(rij')[1]) \div 4]_vars

\* C12: set_particle, set_photon and set_sphorbit leave every stored key
\* with its value and add L = 100 and h = 1 only where absent; no set_* call
\* removes or changes a stored key.
SetOps == {"set_particle", "set_photon", "set_sphorbit", "set_cam",
           "set_pixels", "set_image", "set_axis", "set_ring"}

C12_MergeKeeps ==
    [][/\ call'.op \in SetOps =>
            \A k \in DOMAIN kwargs : k \in DOMAIN kwargs' /\ kwargs'[k] = kwargs[k]
       /\ call'.op \in {"set_particle", "set_photon", "set_sphorbit"} =>
            /\ DOMAIN kwargs' = DOMAIN kwargs \cup {"L", "h"}
            /\ "L" \notin DOMAIN kwargs => kwargs'["L"] = 100
            /\ "h" \notin DOMAIN kwargs => kwargs'["h"] = 1]_vars

\* set_sphorbit has run on a session built with L and eps: L and eps are
\* the user's, h is the default
C12_Witness ==
    /\ call.op = "set_sphorbit"
    /\ kwargs = [k \in {"L", "h", "eps"} |-> IF k = "h" THEN 1 ELSE UserVal(k)]

\* the batch a returning set_* call builds from its own arguments, the
\* camera and the identity not held by the integrator
BuiltBy(c, ic) ==
    CASE c.op = "set_particle" ->
            \E x \in StagePos, v \in StageVel : ic = Some(set_particle_ic(NewId(_geode), x, v))
      [] c.op = "set_photon" ->
            \E x \in StagePos, v \in StageVel : ic = Some(set_photon_ic(NewId(_geode), x, v))
      [] c.op = "set_sphorbit" ->
            \E r \in StageRad : ic = Some(set_sphorbit_ic(NewId(_geode), aspin, r))
      [] c.op \in {"set_pixels", "set_image", "set_axis", "set_ring"} ->
            /\ rij # None
            /\ ic = Some(set_pixels_ic(NewId(_geode), Get(rij), c.ab.shape, c.ab.a, c.ab.b))
      [] OTHER -> FALSE

\* C13 as stated: after any set_* call returns, set_cam included, a batch is
\* staged and it is the batch built by that call alone.
C13_EveryBuilderStages ==
    [][(call'.op \in SetOps /\ call'.outcome = "return") => BuiltBy(call', _ic')]_vars

\* C13: after set_particle, set_photon, set_sphorbit, set_pixels, set_image,
\* set_axis or set_ring returns, a batch is staged and it is the batch built
\* by that call alone, whatever was pending before; set_cam stages nothing
\* and leaves the pending slot as it was.
C13_BuilderReplaces ==
    [][/\ (call'.op \in SetOps \ {"set_cam"} /\ call'.outcome = "return")
            => BuiltBy(call', _ic')
       /\ call'.op = "set_cam" => (call'.outcome = "return" /\ _ic' = _ic)]_vars

\* set_ring has replaced what was pending on a session that has integrated
C13_Witness ==
    /\ call.op = "set_ring"
    /\ call.outcome = "return"
    /\ _geode # None
    /\ _ic # None
    /\ Get(_ic).shape = <<2>>

\* the session after the step
SelfNext == [Self EXCEPT !._ic = _ic', !._geode = _geode']

Swap(s, i, j) == [k \in DOMAIN s |-> IF k = i THEN s[j] ELSE IF k = j THEN s[i] ELSE s[k]]

\* C15: set_pixels stages a batch whose batch dimensions are the shape of
\* its offset arrays; the element at an index is a function of the offsets
\* at that index and of the camera alone, so exchanging two input elements
\* exchanges the two output elements.  set_image stages n x n rays, set_axis
\* and set_ring stage n.
C15_PixelShapes ==
    [][(call'.op \in {"set_pixels", "set_image", "set_axis", "set_ring"}
        /\ call'.outcome = "return")
        => LET ab == call'.ab
               ic == Get(_ic')
               n  == Size(ab.shape)
           IN  /\ ic.shape = ab.shape
               /\ DOMAIN ic.rays = 1..n
               /\ \A i \in 1..n : ic.rays[i] = pixel_ic(Get(rij), <<ab.a[i], ab.b[i]>>)
               /\ \A i, j \in 1..n :
                     set_pixels_ic(ic.id, Get(rij), ab.shape, Swap(ab.a, i, j), Swap(ab.b, i, j)).rays
                         = Swap(ic.rays, i, j)
               /\ call'.op = "set_image" =>
                     /\ Len(ic.shape) = 2 /\ ic.shape[1] = ic.shape[2]
                     /\ Cardinality({ab.a[k] : k \in 1..n}) = ic.shape[1]
                     /\ Cardinality({ab.b[k] : k \in 1..n}) = ic.shape[1]
               /\ call'.op \in {"set_axis", "set_ring"} =>
                     /\ Len(ic.shape) = 1
                     /\ Cardinality({<<ab.a[k], ab.b[k]>> : k \in 1..n}) = ic.shape[1]]_vars

\* set_image has staged a 2 x 2 image
C15_Witness ==
    /\ call.op = "set_image"
    /\ call.outcome = "return"
    /\ _ic # None
    /\ Get(_ic).shape = <<2, 2>>
    /\ Len(Get(_ic).rays) = 4

\* C16: the report printed at construction is "no event horizon" exactly
\* when spin^2 + charge^2 > 1, and a horizon radius exactly when
\* spin^2 + charge^2 <= 1, for every spin and charge.
C16_HorizonReport ==
    LET aa == aspin * aspin
        qq == qcharge * qcharge
        said(m) == \E i \in DOMAIN stdout : stdout[i].msg = m
    IN  /\ said("There is no event horizon") = (aa + qq > 100)
        /\ said("Radius of outer event horizon:") = (aa + qq <= 100)

\* C17: a set_* call on a session that has an integrator leaves that
\* integrator, with its trajectory, held by the session; the next geode()
\* call whose constructor returns, whatever the form of L, replaces it by a
\* new instance built from the new batch at parameter 0, whose trajectory
\* owes nothing to the old one: the start point alone, followed by the one
\* extension of this call when L is a nonzero scalar or is omitted.
C17_RestagingReplaces ==
    [][/\ (call'.op \in SetOps /\ _geode # None) => _geode' = _geode
       /\ (IsGeodeStep /\ _ic # None /\ _geode # None /\ Constructed(call'))
            => LET old == Get(_geode)
                   new == Get(_geode')
                   L   == default_L(kwargs, call'.L)
               IN  /\ new.id # old.id
                   /\ new.ic = Get(_ic)
                   /\ new.ic.id # old.ic.id
                   /\ new.start = 0
                   /\ new.lambdas = IF L.t = "scalar" /\ L.n # 0
                                    THEN <<0, L.n>>
                                    ELSE <<0>>]_vars

\* a sequence call has replaced an earlier integrator by a fresh one
C17_Witness ==
    /\ call.op = "geode"
    /\ call.L = Sequence(<<1, 2>>)
    /\ call.outcome = "return"
    /\ call.ctor # <<>>
    /\ Get(_geode).id = 2
    /\ Get(_geode).lambdas = <<0>>

\* C18: whenever a batch is pending the stored defaults hold both L and h
\* (a pixel builder called before any set_cam fails and stages nothing), so
\* a geode() call that consumes a batch never fails on a missing L: with an
\* explicit L the composed parameters hold an L to remove, and with L
\* omitted the stored L is what the trajectory is extended by.
C18_PendingHasDefaults ==
    [][/\ _ic' # None => {"L", "h"} \subseteq DOMAIN kwargs'
       /\ (call'.op \in {"set_pixels", "set_image", "set_axis", "set_ring"} /\ rij = None)
            => (call'.outcome = "raise" /\ _ic' = _ic)
       /\ (IsGeodeStep /\ _ic # None)
            => /\ call'.err # "KeyError"
               /\ "L" \in DOMAIN compose_kwargs(dtype, kwargs, call'.kw)
               /\ call'.L = LNone =>
                    /\ Len(call'.log) = 1
                    /\ call'.log[1].arg = Scalar(kwargs["L"])]_vars

\* geode() with L omitted has consumed an image staged under the camera's
\* defaults
C18_Witness ==
    /\ call.op = "geode"
    /\ call.L = LNone
    /\ call.outcome = "return"
    /\ call.ctor # <<>>
    /\ kwargs["L"] = 0 - 24
    /\ Get(_geode).ic.shape = <<2, 2>>

\* C19: on a geode() call that consumes a batch, an explicit L is removed
\* from the composed parameters, so the constructor receives no L and L is
\* used only by the extension or sampling that follows; with L omitted the
\* constructor receives the stored L and the trajectory is then extended
\* once by that same L.  fhupper, fhlower and eps never reach the
\* constructor, and the stored defaults are left as they were.
C19_BudgetForwarding ==
    [][(IsGeodeStep /\ _ic # None /\ call'.ctor # <<>>)
        => LET args == call'.ctor[1].kwargs
           IN  /\ call'.L # LNone =>
                    /\ "L" \notin DOMAIN args
                    /\ call'.outcome = "return" =>
                         (Len(call'.log) = 1 /\ call'.log[1].arg = call'.L)
               /\ call'.L = LNone =>
                    /\ "L" \in DOMAIN args
                    /\ args["L"] = kwargs["L"]
                    /\ Constructed(call') =>
                         /\ Len(call'.log) = 1
                         /\ call'.log[1].m = "extend"
                         /\ call'.log[1].arg = Scalar(kwargs["L"])
               /\ DOMAIN args \cap {"fhupper", "fhlower", "eps"} = {}
               /\ Constructed(call') => Get(_geode').kwargs = args
               /\ kwargs' = kwargs]_vars

\* a batch has been consumed with L omitted on a session built with L,
\* fhupper and fhlower, under an eps override
C19_Witness ==
    /\ call.op = "geode"
    /\ call.L = LNone
    /\ call.outcome = "return"
    /\ call.ctor # <<>>
    /\ DOMAIN call.kw = {"eps"}
    /\ {"fhupper", "fhlower"} \subseteq DOMAIN kwargs
    /\ call.ctor[1].kwargs["L"] = 50
    /\ Get(_geode).lambdas = <<0, 50>>

\* C20: a geode() call that raises with neither a batch nor an integrator
\* present, or because the integrator's constructor raises, leaves the
\* pending batch, the integrator and the stored defaults as they were; after
\* a constructor failure the batch is still staged and the same call, retried
\* with a constructor that returns, consumes it with the same arguments.
C20_FailureKeepsSession ==
    [][(IsGeodeStep /\ call'.outcome = "raise"
        /\ (call'.err = "Geode" \/ (_ic = None /\ _geode = None)))
        => /\ _ic' = _ic
           /\ _geode' = _geode
           /\ kwargs' = kwargs
           /\ rij' = rij
           /\ call'.err = "Geode" =>
                LET r == geode(SelfNext, call'.L, call'.N, call'.kw, TRUE)
                IN  /\ _ic' # None
                    /\ r.call.ctor = call'.ctor
                    /\ Constructed(r.call)
                    /\ r._ic = None
                    /\ Get(r._geode).ic = Get(_ic)]_vars

\* the constructor has raised on a session holding a batch and an extended
\* trajectory
C20_Witness ==
    /\ call.op = "geode"
    /\ call.outcome = "raise"
    /\ call.err = "Geode"
    /\ _ic # None
    /\ _geode # None
    /\ Len(Get(_geode).lambdas) > 1

====
